---------------------------- MODULE Spec2Model ----------------------------
(***************************************************************************)
(* Model of the client-side orchestration layer of the book catalogue:     *)
(*   - useAuthController (frontend/src/controllers/authController.ts):     *)
(*     handleLogin, register, handleLogout with their loading/error state; *)
(*   - BookForm (frontend/src/components/BookForm.tsx): validate,          *)
(*     handleSubmit, handleChange, handleImageChange.                      *)
(*                                                                         *)
(* JavaScript is single threaded: every action below is one synchronous    *)
(* segment of a handler (from its start, or from the resumption after an   *)
(* await, up to the next await or the end).  A handler reads the React     *)
(* state of the render it was created in, so within one segment the state  *)
(* setters never change what the segment itself reads.                     *)
(***************************************************************************)
EXTENDS Integers, Sequences, FiniteSets, TLC

VARIABLES
    \* ---- useAuthController ----
    loading,        \* useState(false)
    error,          \* useState<string | null>(null)
    token,          \* Session Store: the current token
    location,       \* router: the last destination navigated to
    calls,          \* the invocations of handleLogin / register / handleLogout
    \* ---- BookForm ----
    formData,       \* useState<BookAdd>: the draft
    preview,        \* useState<string>('')
    errors,         \* useState<{title?, author?, quantity?, cover?}>({})
    readers,        \* FileReaders whose readAsDataURL has not ended yet
    submits,        \* the invocations of handleSubmit
    current_page,   \* Resource Store: the page cursor
    checked,        \* the return value of a stand-alone validate() run
    \* ---- the form's input elements ----
    event,          \* the quantity input's change event not yet handled: its
                    \* e.target.value, or Null when there is none
    history         \* the file chosen last, and for each file the number of
                    \* finished submissions when it was chosen

authVars == <<loading, error, token, location, calls>>
formVars == <<formData, preview, errors, readers, submits, current_page, checked,
              event, history>>
inputVars == <<event, history>>
vars == <<loading, error, token, location, calls,
          formData, preview, errors, readers, submits, current_page, checked,
          event, history>>

-----------------------------------------------------------------------------
(* JavaScript values.  null and undefined are kept as sentinel strings so  *)
(* that every value of a field has one type.                               *)

Null == "null"
Undefined == "undefined"

\* JavaScript truthiness of a string-or-null-or-undefined value.
Truthy(v) == v \notin {"", Null, Undefined}

-----------------------------------------------------------------------------
(*                           useAuthController                             *)

MaxCalls == 2                   \* invocations of the controller's actions

Slots == 1..MaxCalls

Tokens == {"T"}
\* What response.data.data.access_token can hold when data is an object.
AccessTokens == Tokens \cup {"", Undefined}
\* The message of a rejection: a text, an empty text, or none at all.
Messages == {"network down", "", Undefined}

IdleCall ==
    [kind |-> "none", pc |-> "idle", data |-> Undefined,
     access_token |-> Undefined, message |-> Undefined,
     store |-> <<>>, nav |-> <<>>, effects |-> <<>>]

\* Session Store login(token) / logout(), as seen by invocation i.
StoreLogin(t) == [op |-> "login", arg |-> t]
StoreLogout == [op |-> "logout", arg |-> Undefined]
\* navigate(destination); effects keeps an invocation's calls in their order.
Navigate(destination) == [op |-> "navigate", arg |-> destination]

InitAuth ==
    /\ loading = FALSE
    /\ error = Null
    /\ token = Null
    /\ location = "/login"
    /\ calls = [i \in Slots |-> IdleCall]

\* Slots are taken in order; a slot is used by one invocation.
Free(i) ==
    /\ calls[i].pc = "idle"
    /\ \A j \in Slots : j < i => calls[j].pc # "idle"

\* The entry segment of handleLogin and register: up to the await.
Enter(i, kind) ==
    /\ Free(i)
    /\ loading' = TRUE
    /\ error' = Null
    /\ calls' = [calls EXCEPT ![i] = [IdleCall EXCEPT !.kind = kind, !.pc = "pending"]]
    /\ UNCHANGED <<token, location>>

handleLogin(i) == Enter(i, "login") /\ UNCHANGED formVars

register(i) == Enter(i, "register") /\ UNCHANGED formVars

\* A faulty variant of handleLogout: the session is cleared before the await.
handleLogoutEager(i) ==
    /\ Free(i)
    /\ token' = Null
    /\ calls' = [calls EXCEPT ![i] = [IdleCall EXCEPT !.kind = "logout",
                    !.pc = "pending", !.store = <<StoreLogout>>,
                    !.effects = <<StoreLogout>>]]
    /\ UNCHANGED <<loading, error, location>>
    /\ UNCHANGED formVars

\* handleLogout up to its await: no state is set.
handleLogout(i) ==
    /\ Free(i)
    /\ calls' = [calls EXCEPT ![i] = [IdleCall EXCEPT !.kind = "logout", !.pc = "pending"]]
    /\ UNCHANGED <<loading, error, token, location>>
    /\ UNCHANGED formVars

\* The gateway settles the call of invocation i: it resolves with an
\* envelope {data: null} or {data: {access_token?}} ...
authServiceResolve(i) ==
    /\ calls[i].pc = "pending"
    /\ \E d \in {Null, "object"} :
       \E t \in AccessTokens :
          /\ d = Null => t = Undefined
          /\ calls[i].kind = "logout" => (d = Null /\ t = Undefined)
          /\ calls' = [calls EXCEPT ![i].pc = "resolved", ![i].data = d,
                                    ![i].access_token = t]
    /\ UNCHANGED <<loading, error, token, location>>
    /\ UNCHANGED formVars

\* ... or rejects with an error object.
authServiceReject(i) ==
    /\ calls[i].pc = "pending"
    /\ \E m \in Messages :
          calls' = [calls EXCEPT ![i].pc = "rejected", ![i].message = m]
    /\ UNCHANGED <<loading, error, token, location>>
    /\ UNCHANGED formVars

\* A faulty variant of MessageOr: the error's message with no fallback.
MessageOnly(m, fallback) == m

\* err.message || fallback
MessageOr(m, fallback) == IF Truthy(m) THEN m ELSE fallback

\* A faulty variant of AfterResolved: the earlier version of the
\* handlers, which passed the whole data object to login() and navigated
\* whether or not there was one.
AfterResolvedWholeData(i, kind, failure) ==
    /\ calls[i].kind = kind
    /\ calls[i].pc = "resolved"
    /\ IF calls[i].data # Null
       THEN /\ token' = calls[i].data
            /\ calls' = [calls EXCEPT ![i].pc = "done",
                            ![i].store = Append(@, StoreLogin(calls[i].data)),
                            ![i].nav = Append(@, "/"),
                            ![i].effects = @ \o <<StoreLogin(calls[i].data),
                                                  Navigate("/")>>]
       ELSE /\ calls' = [calls EXCEPT ![i].pc = "done", ![i].nav = Append(@, "/"),
                            ![i].effects = Append(@, Navigate("/"))]
            /\ UNCHANGED token
    /\ location' = "/"
    /\ loading' = FALSE
    /\ UNCHANGED error

\* The try body after the await, then finally.
AfterResolved(i, kind, failure) ==
    /\ calls[i].kind = kind
    /\ calls[i].pc = "resolved"
    /\ IF calls[i].data # Null
       THEN /\ token' = calls[i].access_token
            /\ location' = "/"
            /\ calls' = [calls EXCEPT ![i].pc = "done",
                            ![i].store = Append(@, StoreLogin(calls[i].access_token)),
                            ![i].nav = Append(@, "/"),
                            ![i].effects = @ \o <<StoreLogin(calls[i].access_token),
                                                  Navigate("/")>>]
            /\ UNCHANGED error
       ELSE /\ error' = failure
            /\ calls' = [calls EXCEPT ![i].pc = "done"]
            /\ UNCHANGED <<token, location>>
    /\ loading' = FALSE

\* A faulty variant of AfterRejected: setLoading(false) at the end of
\* the try body instead of in a finally.
AfterRejectedNoFinally(i, kind, fallback) ==
    /\ calls[i].kind = kind
    /\ calls[i].pc = "rejected"
    /\ error' = MessageOr(calls[i].message, fallback)
    /\ calls' = [calls EXCEPT ![i].pc = "done"]
    /\ UNCHANGED <<loading, token, location>>

\* The catch block, then finally.
AfterRejected(i, kind, fallback) ==
    /\ calls[i].kind = kind
    /\ calls[i].pc = "rejected"
    /\ error' = MessageOr(calls[i].message, fallback)
    /\ loading' = FALSE
    /\ calls' = [calls EXCEPT ![i].pc = "done"]
    /\ UNCHANGED <<token, location>>

handleLoginResolved(i) ==
    AfterResolved(i, "login", "Login failed, please try again") /\ UNCHANGED formVars

handleLoginRejected(i) ==
    AfterRejected(i, "login", "Invalid credentials") /\ UNCHANGED formVars

registerResolved(i) ==
    AfterResolved(i, "register", "Registering failed, please try again")
    /\ UNCHANGED formVars

registerRejected(i) ==
    AfterRejected(i, "register", "Register failed") /\ UNCHANGED formVars

\* handleLogout after the await resolved: logout(); navigate('/login').
handleLogoutResolved(i) ==
    /\ calls[i].kind = "logout"
    /\ calls[i].pc = "resolved"
    /\ token' = Null
    /\ location' = "/login"
    /\ calls' = [calls EXCEPT ![i].pc = "done",
                    ![i].store = Append(@, StoreLogout),
                    ![i].nav = Append(@, "/login"),
                    ![i].effects = @ \o <<StoreLogout, Navigate("/login")>>]
    /\ UNCHANGED <<loading, error>>
    /\ UNCHANGED formVars

\* handleLogout has no try: a rejected await ends the handler there and the
\* promise handleLogout returned rejects with the same error.
handleLogoutRejected(i) ==
    /\ calls[i].kind = "logout"
    /\ calls[i].pc = "rejected"
    /\ calls' = [calls EXCEPT ![i].pc = "threw"]
    /\ UNCHANGED <<loading, error, token, location>>
    /\ UNCHANGED formVars

-----------------------------------------------------------------------------
(*                               BookForm                                  *)

MaxLen == 3                     \* longest text a stand-alone validate() is given
MaxSubmits == 2                 \* invocations of handleSubmit

MinLength == 3                  \* title.length < 3, author.length < 3
MinQuantity == 1                \* quantity < 1, Math.max(1, ...)

\* Texts are sequences of characters, so that length and trim() are computed.
Chars == {"a", " "}
Texts(n) == UNION {[1..k -> Chars] : k \in 0..n}

RECURSIVE TrimStart(_)
TrimStart(s) == IF s # <<>> /\ Head(s) = " " THEN TrimStart(Tail(s)) ELSE s

RECURSIVE TrimEnd(_)
TrimEnd(s) ==
    IF s # <<>> /\ s[Len(s)] = " " THEN TrimEnd(SubSeq(s, 1, Len(s) - 1)) ELSE s

\* String.prototype.trim
Trim(s) == TrimEnd(TrimStart(s))

\* Numbers: an integer or NaN.
Num(n) == [nan |-> FALSE, val |-> n]
NaN == [nan |-> TRUE, val |-> 0]

Digits == {"0", "1", "2", "3", "4", "5", "6", "7", "8", "9"}
DigitValue(c) ==
    CASE c = "0" -> 0 [] c = "1" -> 1 [] c = "2" -> 2 [] c = "3" -> 3
      [] c = "4" -> 4 [] c = "5" -> 5 [] c = "6" -> 6 [] c = "7" -> 7
      [] c = "8" -> 8 [] c = "9" -> 9

\* The value of the longest prefix of s made of digits, continuing from acc.
RECURSIVE LeadingDigits(_, _)
LeadingDigits(s, acc) ==
    IF s # <<>> /\ Head(s) \in Digits
    THEN LeadingDigits(Tail(s), acc * 10 + DigitValue(Head(s)))
    ELSE acc

\* parseInt(value): leading white space, an optional sign, then digits up to
\* the first character that is none; NaN when there is no digit.
parseInt(value) ==
    LET t == TrimStart(value)
        signed == t # <<>> /\ Head(t) \in {"-", "+"}
        u == IF signed THEN Tail(t) ELSE t
    IN  IF u = <<>> \/ Head(u) \notin Digits
        THEN NaN
        ELSE IF signed /\ Head(t) = "-"
             THEN Num(0 - LeadingDigits(u, 0))
             ELSE Num(LeadingDigits(u, 0))

\* A faulty variant of MathMax1: the floor is 0.
MathMax0(x) ==
    IF x.nan THEN NaN ELSE IF x.val > 0 THEN x ELSE Num(0)

\* Math.max(1, x): NaN when x is NaN.
MathMax1(x) ==
    IF x.nan THEN NaN ELSE IF x.val > MinQuantity THEN x ELSE Num(MinQuantity)

\* Number.prototype.toString
NumberToString(x) == IF x.nan THEN "NaN" ELSE ToString(x.val)

\* value={formData.quantity}: the text the number input shows for a number.
DigitChar(d) ==
    CASE d = 0 -> "0" [] d = 1 -> "1" [] d = 2 -> "2" [] d = 3 -> "3"
      [] d = 4 -> "4" [] d = 5 -> "5" [] d = 6 -> "6" [] d = 7 -> "7"
      [] d = 8 -> "8" [] d = 9 -> "9"

RECURSIVE DecimalDigits(_)
DecimalDigits(n) ==
    IF n < 10 THEN <<DigitChar(n)>>
    ELSE Append(DecimalDigits(n \div 10), DigitChar(n % 10))

Decimal(x) ==
    IF x.nan THEN <<"N", "a", "N">>
    ELSE IF x.val < 0 THEN <<"-">> \o DecimalDigits(0 - x.val)
    ELSE DecimalDigits(x.val)

\* Files, by name; File.type.
AllFiles == {"cover.jpg", "cover.png", "cover.gif", "notes.pdf"}
FileType(f) ==
    CASE f = "cover.jpg" -> "image/jpeg"
      [] f = "cover.png" -> "image/png"
      [] f = "cover.gif" -> "image/gif"
      [] f = "notes.pdf" -> "application/pdf"

\* FileReader.result after a readAsDataURL that succeeded.
DataURL(f) ==
    CASE f = "cover.jpg" -> "data:image/jpeg;base64,..."
      [] f = "cover.png" -> "data:image/png;base64,..."
      [] f = "cover.gif" -> "data:image/gif;base64,..."
      [] f = "notes.pdf" -> "data:application/pdf;base64,..."

allowedTypes == {"image/jpeg", "image/png", "image/gif"}

Fields == {"title", "author", "quantity", "cover"}

TitleError == "Title must be at least 3 characters long."
AuthorError == "Author name must be at least 3 characters long."
QuantityError == "Quantity must be a positive number."
CoverTypeError == "Only JPG, PNG, or GIF images are allowed."
CoverAbsentError == "Please upload an image."

\* const newErrors = {}
NoErrors == [f \in {} |-> ""]

\* newErrors[k] = v
Put(m, k, v) == [f \in DOMAIN m \cup {k} |-> IF f = k THEN v ELSE m[f]]

\* A faulty variant of validate: the quantity test without isNaN.
validateWithoutIsNaN(fd) ==
    LET e0 == NoErrors
        e1 == IF Trim(fd.title) = <<>> \/ Len(fd.title) < MinLength
              THEN Put(e0, "title", TitleError) ELSE e0
        e2 == IF Trim(fd.author) = <<>> \/ Len(fd.author) < MinLength
              THEN Put(e1, "author", AuthorError) ELSE e1
        e3 == IF ~fd.quantity.nan /\ fd.quantity.val < MinQuantity
              THEN Put(e2, "quantity", QuantityError) ELSE e2
        e4 == IF fd.cover # Null
                 /\ (FileType(fd.cover) \notin allowedTypes \/ fd.cover = Null)
              THEN Put(e3, "cover", CoverTypeError) ELSE e3
        e5 == IF fd.cover = Null
              THEN Put(e4, "cover", CoverAbsentError) ELSE e4
    IN  e5

\* A faulty variant of validate: the cover's type is not tested.
validateWithoutTypeTest(fd) ==
    LET e0 == NoErrors
        e1 == IF Trim(fd.title) = <<>> \/ Len(fd.title) < MinLength
              THEN Put(e0, "title", TitleError) ELSE e0
        e2 == IF Trim(fd.author) = <<>> \/ Len(fd.author) < MinLength
              THEN Put(e1, "author", AuthorError) ELSE e1
        e3 == IF (~fd.quantity.nan /\ fd.quantity.val < MinQuantity) \/ fd.quantity.nan
              THEN Put(e2, "quantity", QuantityError) ELSE e2
        e5 == IF fd.cover = Null
              THEN Put(e3, "cover", CoverAbsentError) ELSE e3
    IN  e5

\* validate(): the mapping it hands to setErrors, for the draft fd it reads.
validate(fd) ==
    LET e0 == NoErrors
        e1 == IF Trim(fd.title) = <<>> \/ Len(fd.title) < MinLength
              THEN Put(e0, "title", TitleError) ELSE e0
        e2 == IF Trim(fd.author) = <<>> \/ Len(fd.author) < MinLength
              THEN Put(e1, "author", AuthorError) ELSE e1
        e3 == IF (~fd.quantity.nan /\ fd.quantity.val < MinQuantity) \/ fd.quantity.nan
              THEN Put(e2, "quantity", QuantityError) ELSE e2
        e4 == IF fd.cover # Null
                 /\ (FileType(fd.cover) \notin allowedTypes \/ fd.cover = Null)
              THEN Put(e3, "cover", CoverTypeError) ELSE e3
        e5 == IF fd.cover = Null
              THEN Put(e4, "cover", CoverAbsentError) ELSE e4
    IN  e5

\* validate()'s return value: Object.keys(newErrors).length === 0
isValid(fd) == DOMAIN validate(fd) = {}

\* useState<BookAdd>({title: '', author: '', cover: null, quantity: 1})
EmptyForm == [title |-> <<>>, author |-> <<>>, cover |-> Null, quantity |-> Num(1)]

\* The FormData handleSubmit appends to.
NoRequest ==
    [title |-> <<>>, author |-> <<>>, quantity |-> Undefined, cover |-> Undefined]
FormDataOf(fd) ==
    [title |-> fd.title, author |-> fd.author,
     quantity |-> NumberToString(fd.quantity), cover |-> fd.cover]

IdleSubmit ==
    [pc |-> "idle", request |-> NoRequest, adds |-> 0, getAlls |-> <<>>, closes |-> 0,
     refresh |-> "none"]

Pages == {1, 2}

\* What the user types or pastes into the text inputs and the number input,
\* and the files the chooser offers.
TypedTexts == {<<"a", " ", " ">>, <<"a", "b", "c">>}
TypedNumbers == {<<"-", "5">>, <<"a", "b", "c">>}
ChosenFiles == {"cover.jpg", "notes.pdf"}

\* No file chosen yet.
NoHistory == [selected |-> Null, epoch |-> [f \in ChosenFiles |-> 0]]

\* What the quantity input can deliver as e.target.value.
RawQuantities ==
    {<<"-", "5">>, <<"0">>, <<"1">>, <<"7">>, <<"1", "2">>, <<"+", "4">>,
     <<" ", "3">>, <<"2", ".", "5">>, <<"1", "e", "3">>, <<"a", "b", "c">>, <<>>}

\* The drafts a stand-alone validate() is given.
Drafts ==
    [title : Texts(MaxLen), author : Texts(MaxLen),
     cover : AllFiles \cup {Null},
     quantity : {Num(n) : n \in -1..2} \cup {NaN}]

InitForm ==
    /\ formData = EmptyForm
    /\ preview = ""
    /\ errors = NoErrors
    /\ readers = {}
    /\ submits = [i \in 1..MaxSubmits |-> IdleSubmit]
    /\ current_page \in Pages
    /\ checked = "none"
    /\ event = Null
    /\ history = NoHistory

FreeSubmit(i) ==
    /\ submits[i].pc = "idle"
    /\ \A j \in 1..MaxSubmits : j < i => submits[j].pc # "idle"

\* handleSubmit up to its await: validate(), and when it passes, add(form).
handleSubmit(i) ==
    /\ FreeSubmit(i)
    /\ errors' = validate(formData)
    /\ IF isValid(formData)
       THEN submits' = [submits EXCEPT ![i].pc = "adding",
                           ![i].request = FormDataOf(formData),
                           ![i].adds = @ + 1]
       ELSE submits' = [submits EXCEPT ![i].pc = "aborted"]
    /\ UNCHANGED <<formData, preview, readers, current_page, checked>>
    /\ UNCHANGED authVars
    /\ UNCHANGED inputVars

\* A faulty variant of handleSubmitAdded: setPreview('') left out.
handleSubmitAddedKeepsPreview(i) ==
    /\ submits[i].pc = "adding"
    /\ submits' = [submits EXCEPT ![i].pc = "done",
                       ![i].request = NoRequest,
                       ![i].getAlls = Append(@, current_page),
                       ![i].refresh = "pending",
                       ![i].closes = @ + 1]
    /\ formData' = EmptyForm
    /\ UNCHANGED <<preview, errors, readers, current_page, checked>>
    /\ UNCHANGED authVars
    /\ UNCHANGED inputVars

\* add(form) resolves and handleSubmit resumes after its await, in the same
\* turn of the event loop: getAll, the two resets, handle().
handleSubmitAdded(i) ==
    /\ submits[i].pc = "adding"
    /\ submits' = [submits EXCEPT ![i].pc = "done",
                       ![i].request = NoRequest,
                       ![i].getAlls = Append(@, current_page),
                       ![i].refresh = "pending",
                       ![i].closes = @ + 1]
    /\ formData' = EmptyForm
    /\ preview' = ""
    /\ UNCHANGED <<errors, readers, current_page, checked>>
    /\ UNCHANGED authVars
    /\ UNCHANGED inputVars

\* add(form) rejects: handleSubmit has no try, so it ends at the await and the
\* promise it returned rejects.
handleSubmitFailed(i) ==
    /\ submits[i].pc = "adding"
    /\ submits' = [submits EXCEPT ![i].pc = "threw", ![i].request = NoRequest]
    /\ UNCHANGED <<formData, preview, errors, readers, current_page, checked>>
    /\ UNCHANGED authVars
    /\ UNCHANGED inputVars

\* getAll(current_page) is not awaited: its promise settles on its own, and
\* nothing is attached to it.
getAllResolved(i) ==
    /\ submits[i].refresh = "pending"
    /\ submits' = [submits EXCEPT ![i].refresh = "resolved"]
    /\ UNCHANGED <<formData, preview, errors, readers, current_page, checked>>
    /\ UNCHANGED authVars
    /\ UNCHANGED inputVars

getAllRejected(i) ==
    /\ submits[i].refresh = "pending"
    /\ submits' = [submits EXCEPT ![i].refresh = "rejected"]
    /\ UNCHANGED <<formData, preview, errors, readers, current_page, checked>>
    /\ UNCHANGED authVars
    /\ UNCHANGED inputVars

\* handleChange: the functional update of one field, then validate() on the
\* draft of the render the handler belongs to.
handleChange(name, value) ==
    /\ formData' = [formData EXCEPT
                       ![name] = IF name = "quantity"
                                 THEN MathMax1(parseInt(value)) ELSE value]
    /\ errors' = validate(formData)
    /\ UNCHANGED <<preview, readers, submits, current_page, checked>>
    /\ UNCHANGED authVars

\* handleImageChange: nothing without a file; else a reader is started (the
\* chooser is not used again for a file that is still being read).
handleImageChange(file) ==
    /\ IF file # Null
       THEN /\ file \notin readers
            /\ readers' = readers \cup {file}
       ELSE UNCHANGED readers
    /\ UNCHANGED <<formData, preview, errors, submits, current_page, checked>>
    /\ UNCHANGED authVars

\* reader.onloadend: reader.result is the data URL, or null after a failed read.
onloadend(file, result) ==
    /\ file \in readers
    /\ readers' = readers \ {file}
    /\ preview' = result
    /\ formData' = [formData EXCEPT !.cover = file]
    /\ UNCHANGED <<errors, submits, current_page, checked>>
    /\ UNCHANGED authVars
    /\ UNCHANGED inputVars

\* onChange={handleChange} of the text and number inputs, the event handled
\* as it is dispatched.
onChange(name, value) == handleChange(name, value) /\ UNCHANGED inputVars

\* onChange={handleImageChange} of the file input.
onFileChange(file) == handleImageChange(file) /\ UNCHANGED inputVars

\* onChange={handleChange} of the quantity input, for the event at hand.
onQuantityChange ==
    /\ event # Null
    /\ handleChange("quantity", event)
    /\ event' = Null
    /\ UNCHANGED history

\* The quantity input fires again with the text it shows for the stored value.
onQuantityShown ==
    /\ event = Null
    /\ event' = Decimal(formData.quantity)
    /\ UNCHANGED <<formData, preview, errors, readers, submits, current_page, checked>>
    /\ UNCHANGED authVars
    /\ UNCHANGED history

\* The submissions that have run to their end (and reset the draft).
DoneCount == Cardinality({i \in 1..MaxSubmits : submits[i].pc = "done"})

\* onChange={handleImageChange} of the file input, the choice noted in history.
onFileChosen(file) ==
    /\ handleImageChange(file)
    /\ history' = [selected |-> file,
                   epoch |-> [history.epoch EXCEPT ![file] = DoneCount]]
    /\ UNCHANGED event

-----------------------------------------------------------------------------
(*                            Specifications                               *)

NextAuth ==
    \E i \in Slots :
        \/ handleLogin(i)
        \/ register(i)
        \/ handleLogout(i)
        \/ authServiceResolve(i)
        \/ authServiceReject(i)
        \/ handleLoginResolved(i)
        \/ handleLoginRejected(i)
        \/ registerResolved(i)
        \/ registerRejected(i)
        \/ handleLogoutResolved(i)
        \/ handleLogoutRejected(i)

NextForm ==
    \/ \E i \in 1..MaxSubmits :
        \/ handleSubmit(i)
        \/ handleSubmitAdded(i)
        \/ handleSubmitFailed(i)
    \/ \E name \in {"title", "author"} : \E value \in TypedTexts :
        onChange(name, value)
    \/ \E value \in TypedNumbers : onChange("quantity", value)
    \/ \E file \in ChosenFiles \cup {Null} : onFileChange(file)
    \/ \E file \in ChosenFiles : \E result \in {DataURL(file), Null} :
        onloadend(file, result)

\* Both components as mounted.
Init == InitAuth /\ InitForm

\* The controller on its own, the form left as mounted.
SpecAuth == Init /\ [][NextAuth]_vars

\* The form on its own, the controller left as mounted.
SpecForm == Init /\ [][NextForm]_vars

\* validate() on its own, on any draft.
InitValidate ==
    /\ InitAuth
    /\ formData \in Drafts
    /\ preview = ""
    /\ errors = NoErrors
    /\ readers = {}
    /\ submits = [i \in 1..MaxSubmits |-> IdleSubmit]
    /\ current_page = 1
    /\ checked = "none"
    /\ event = Null
    /\ history = NoHistory

RunValidate ==
    /\ checked = "none"
    /\ errors' = validate(formData)
    /\ checked' = IF isValid(formData) THEN "true" ELSE "false"
    /\ UNCHANGED <<formData, preview, readers, submits, current_page>>
    /\ UNCHANGED authVars
    /\ UNCHANGED inputVars

SpecValidate == InitValidate /\ [][RunValidate]_vars

\* The submission pipeline with the cover chooser and the refresh it starts,
\* on a form whose title and author have been typed.
InitPipeline ==
    /\ InitAuth
    /\ formData = [EmptyForm EXCEPT !.title = <<"a", "b", "c">>,
                                    !.author = <<"a", "b", "c">>]
    /\ preview = ""
    /\ errors = validate([EmptyForm EXCEPT !.title = <<"a", "b", "c">>])
    /\ readers = {}
    /\ submits = [i \in 1..MaxSubmits |-> IdleSubmit]
    /\ current_page \in Pages
    /\ checked = "none"
    /\ event = Null
    /\ history = NoHistory

NextPipeline ==
    \/ \E i \in 1..MaxSubmits :
        \/ handleSubmit(i)
        \/ handleSubmitAdded(i)
        \/ handleSubmitFailed(i)
        \/ getAllResolved(i)
        \/ getAllRejected(i)
    \/ \E file \in ChosenFiles : onFileChosen(file)
    \/ \E file \in ChosenFiles : \E result \in {DataURL(file), Null} :
        onloadend(file, result)

SpecPipeline == InitPipeline /\ [][NextPipeline]_vars

\* The quantity coercion on its own: a form whose other fields are valid and
\* whose quantity input has a change event to deliver.
InitCoerce ==
    /\ InitAuth
    /\ formData = [title |-> <<"a", "b", "c">>, author |-> <<"a", "b", "c">>,
                   cover |-> "cover.jpg", quantity |-> Num(1)]
    /\ preview = DataURL("cover.jpg")
    /\ errors = validate([title |-> <<"a", "b", "c">>, author |-> <<>>,
                          cover |-> "cover.jpg", quantity |-> Num(1)])
    /\ readers = {}
    /\ submits = [i \in 1..MaxSubmits |-> IdleSubmit]
    /\ current_page = 1
    /\ checked = "none"
    /\ event \in RawQuantities
    /\ history = NoHistory

NextCoerce ==
    \/ onQuantityChange
    \/ onQuantityShown
    \/ \E i \in 1..MaxSubmits :
        \/ handleSubmit(i)
        \/ handleSubmitAdded(i)
        \/ handleSubmitFailed(i)

SpecCoerce == InitCoerce /\ [][NextCoerce]_vars

\* The controller under the event loop's scheduling: a settled call's
\* continuation runs, and (the claims' proviso) every gateway call settles.
FairSpecAuth ==
    /\ SpecAuth
    /\ \A i \in Slots :
        /\ WF_vars(authServiceResolve(i) \/ authServiceReject(i))
        /\ WF_vars(handleLoginResolved(i) \/ handleLoginRejected(i))
        /\ WF_vars(registerResolved(i) \/ registerRejected(i))
        /\ WF_vars(handleLogoutResolved(i) \/ handleLogoutRejected(i))

\* The whole client.
Next == NextAuth \/ NextForm
Spec == Init /\ [][Next]_vars

-----------------------------------------------------------------------------
(*                     Properties of useAuthController                     *)

\* Invocation i is the only one the controller has been given so far.
Alone(i) == \A j \in Slots : j # i => calls[j].pc = "idle"

\* Invocation i is a login whose gateway call resolved with a non-empty token.
LoginGotToken(i) ==
    /\ calls[i].kind = "login"
    /\ calls[i].pc \in {"resolved", "done"}
    /\ calls[i].data # Null
    /\ calls[i].access_token \notin {"", Undefined}

\* C1: a login whose gateway call resolves with a non-empty token calls
\* Session Store login(token) exactly once with that token and navigates home
\* exactly once; the step that ends it sets no error and leaves loading false,
\* so that the error of a login on its own is still null.
C1_LoginSuccess ==
    /\ [](\A i \in Slots : (LoginGotToken(i) /\ calls[i].pc = "done") =>
            /\ calls[i].store = <<[op |-> "login", arg |-> calls[i].access_token]>>
            /\ calls[i].nav = <<"/">>
            /\ Alone(i) => (error = Null /\ loading = FALSE))
    /\ [][\A i \in Slots :
            (LoginGotToken(i) /\ calls[i].pc = "resolved" /\ calls'[i].pc # "resolved") =>
                /\ calls'[i].pc = "done"
                /\ token' = calls[i].access_token
                /\ location' = "/"
                /\ error' = error
                /\ loading' = FALSE]_vars

C1_Witness ==
    \E i \in Slots :
        /\ LoginGotToken(i) /\ calls[i].pc = "done"
        /\ calls[i].store = <<[op |-> "login", arg |-> "T"]>>
        /\ token = "T" /\ location = "/" /\ error = Null /\ ~loading

\* Invocation i is a login whose gateway call resolved without a usable token:
\* data null, data without access_token, or an empty access_token.
LoginGotNoToken(i) ==
    /\ calls[i].kind = "login"
    /\ calls[i].pc \in {"resolved", "done"}
    /\ (calls[i].data = Null \/ calls[i].access_token \in {"", Undefined})

\* C2: a login whose gateway call resolves with an empty or absent token does
\* not call the Session Store, does not navigate, and sets error to
\* "Login failed, please try again".
C2_Original ==
    \A i \in Slots : (LoginGotNoToken(i) /\ calls[i].pc = "done") =>
        /\ calls[i].store = <<>>
        /\ calls[i].nav = <<>>
        /\ Alone(i) => /\ error = "Login failed, please try again"
                       /\ token = Null
                       /\ location = "/login"

\* Invocation i is a login whose gateway call was rejected.
LoginRejected(i) ==
    /\ calls[i].kind = "login"
    /\ calls[i].pc \in {"rejected", "done"}
    /\ calls[i].data = Undefined

\* C3: a login whose gateway call is rejected sets error to the failure's
\* message when it has one and to "Invalid credentials" otherwise, leaves the
\* Session Store as it is, does not navigate, and ends with loading false.
C3_LoginRejected ==
    /\ [](\A i \in Slots : (LoginRejected(i) /\ calls[i].pc = "done") =>
            /\ calls[i].store = <<>>
            /\ calls[i].nav = <<>>)
    /\ [][\A i \in Slots :
            (LoginRejected(i) /\ calls[i].pc = "rejected" /\ calls'[i].pc # "rejected") =>
                /\ calls'[i].pc = "done"
                /\ error' = IF calls[i].message \in {"", Undefined}
                            THEN "Invalid credentials" ELSE calls[i].message
                /\ token' = token
                /\ location' = location
                /\ loading' = FALSE]_vars

C3_Witness ==
    \E i, j \in Slots :
        /\ LoginRejected(i) /\ calls[i].pc = "done" /\ calls[i].message = "network down"
        /\ LoginRejected(j) /\ calls[j].pc = "done" /\ calls[j].message = Undefined
        /\ error = "Invalid credentials" /\ ~loading /\ token = Null

\* Invocation i is a login or a registration between its start and its end.
Running(i) ==
    /\ calls[i].kind \in {"login", "register"}
    /\ calls[i].pc \in {"pending", "resolved", "rejected"}

\* C4: a login or registration sets loading = true and error = null when it
\* starts; once its gateway call settles it reaches its end, on every path,
\* and the step that ends it leaves loading false; loading is true only
\* while some login or registration is running.
C4_LoadingLifecycle ==
    /\ [][\A i \in Slots :
            (calls[i].pc = "idle" /\ calls'[i].kind \in {"login", "register"}) =>
                (loading' = TRUE /\ error' = Null)]_vars
    /\ \A i \in Slots : Running(i) ~> (calls[i].pc = "done")
    /\ [][\A i \in Slots :
            (Running(i) /\ ~Running(i)') =>
                (calls'[i].pc = "done" /\ loading' = FALSE)]_vars
    /\ [](loading => \E i \in Slots : Running(i))

C4_Witness ==
    \E i, j \in Slots :
        /\ calls[i].kind = "register" /\ calls[i].pc = "done"
        /\ calls[i].data = Undefined
        /\ calls[j].kind = "login" /\ calls[j].pc = "done" /\ calls[j].data = Null
        /\ ~loading

\* C5: every logout, whether its gateway call resolves or is rejected, calls
\* Session Store logout() exactly once and navigates to the login page
\* exactly once.
C5_Original ==
    \A i \in Slots :
        (calls[i].kind = "logout" /\ calls[i].pc \in {"done", "threw"}) =>
            /\ calls[i].store = <<[op |-> "logout", arg |-> Undefined]>>
            /\ calls[i].nav = <<"/login">>

\* C6: no rejection of a gateway call leaves login, register or logout: the
\* promise of every action resolves.
C6_Original == \A i \in Slots : calls[i].pc # "threw"

\* C11: register branches as login does: a resolved call with a non-empty
\* token calls Session Store login(token) once and navigates home once; a
\* resolved call with an empty or absent token sets error to "Registering
\* failed, please try again" and neither calls the Session Store nor
\* navigates; a rejected call sets an error message and neither calls the
\* Session Store nor navigates.
C11_Original ==
    \A i \in Slots : (calls[i].kind = "register" /\ calls[i].pc = "done") =>
        IF calls[i].data = Undefined
        THEN /\ calls[i].store = <<>>
             /\ calls[i].nav = <<>>
             /\ Alone(i) => error \notin {Null, "", Undefined}
        ELSE IF calls[i].data # Null /\ calls[i].access_token \notin {"", Undefined}
        THEN /\ calls[i].store = <<[op |-> "login", arg |-> calls[i].access_token]>>
             /\ calls[i].nav = <<"/">>
        ELSE /\ calls[i].store = <<>>
             /\ calls[i].nav = <<>>
             /\ Alone(i) => error = "Registering failed, please try again"

\* C15: in a logout, Session Store logout() and the navigation to the login
\* page happen only once the remote logout call has settled, never while it
\* is pending, and the session is cleared before the navigation.
C15_LogoutOrder ==
    /\ [](\A i \in Slots : (calls[i].kind = "logout" /\ calls[i].pc = "pending") =>
            calls[i].effects = <<>>)
    /\ [][\A i \in Slots :
            (calls'[i].kind = "logout" /\ calls'[i].effects # calls[i].effects) =>
                calls[i].pc \in {"resolved", "rejected"}]_vars
    /\ [](\A i \in Slots : (calls[i].kind = "logout" /\ calls[i].pc = "done") =>
            calls[i].effects = <<[op |-> "logout", arg |-> Undefined],
                                 [op |-> "navigate", arg |-> "/login"]>>)

\* A login has put a token in the Session Store and a later logout, its
\* remote call resolved, has cleared it and gone to the login page.
C15_Witness ==
    \E i, j \in Slots :
        /\ LoginGotToken(i) /\ calls[i].pc = "done"
        /\ calls[j].kind = "logout" /\ calls[j].pc = "done"
        /\ Len(calls[j].effects) = 2
        /\ token = Null /\ location = "/login"

-----------------------------------------------------------------------------
(*                         Properties of BookForm                          *)

\* The draft is valid as the form's contract has it: texts of trimmed length
\* 3 or more, a number of 1 or more, a cover of an allowed type.
FullyValid(fd) ==
    /\ Len(Trim(fd.title)) >= 3
    /\ Len(Trim(fd.author)) >= 3
    /\ ~fd.quantity.nan /\ fd.quantity.val >= 1
    /\ fd.cover # Null
    /\ FileType(fd.cover) \in {"image/jpeg", "image/png", "image/gif"}

Starts(i) == submits[i].pc = "idle" /\ submits'[i].pc # "idle"

\* C7: a submit of a valid draft calls add once with the draft's title,
\* author, quantity and cover; when add has resolved (and not before) it
\* calls getAll(current_page) once, resets the draft and the preview and
\* signals close once.
C7_SubmitValid ==
    /\ [][\A i \in 1..MaxSubmits : (Starts(i) /\ FullyValid(formData)) =>
            /\ submits'[i].pc = "adding"
            /\ submits'[i].request =
                  [title |-> formData.title, author |-> formData.author,
                   quantity |-> ToString(formData.quantity.val),
                   cover |-> formData.cover]]_vars
    /\ [](\A i \in 1..MaxSubmits : submits[i].pc = "adding" =>
            /\ submits[i].adds = 1
            /\ submits[i].getAlls = <<>>
            /\ submits[i].closes = 0)
    /\ [][\A i \in 1..MaxSubmits :
            (submits[i].pc = "adding" /\ submits'[i].pc = "done") =>
                /\ formData' = [title |-> <<>>, author |-> <<>>, cover |-> Null,
                                quantity |-> [nan |-> FALSE, val |-> 1]]
                /\ preview' = ""]_vars
    /\ [](\A i \in 1..MaxSubmits : submits[i].pc = "done" =>
            /\ submits[i].adds = 1
            /\ submits[i].getAlls = <<current_page>>
            /\ submits[i].closes = 1)

\* One submit of a valid draft has run to its end while a second submit of
\* the same draft still waits for its add.
C7_Witness ==
    \E i, j \in 1..MaxSubmits :
        /\ submits[i].pc = "done"
        /\ submits[i].getAlls = <<current_page>>
        /\ formData = EmptyForm /\ preview = ""
        /\ submits[j].pc = "adding"
        /\ submits[j].request =
              [title |-> <<"a", "b", "c">>, author |-> <<"a", "b", "c">>,
               quantity |-> "1", cover |-> "cover.jpg"]

\* The draft is invalid in one of the ways the claim lists.
ListedInvalid(fd) ==
    \/ Len(fd.title) < 3
    \/ Len(fd.author) < 3
    \/ fd.quantity.nan
    \/ fd.quantity.val < 1
    \/ fd.cover = Null
    \/ FileType(fd.cover) \notin {"image/jpeg", "image/png", "image/gif"}

\* C8: a submit of a draft whose title or author is shorter than 3, whose
\* quantity is below 1 or no number, or whose cover is absent or of another
\* type issues no add and no getAll, leaves draft and preview as they are,
\* does not signal close, and leaves errors visible.
C8_SubmitInvalid ==
    /\ [][\A i \in 1..MaxSubmits : (Starts(i) /\ ListedInvalid(formData)) =>
            /\ submits'[i].pc = "aborted"
            /\ formData' = formData
            /\ preview' = preview
            /\ DOMAIN errors' # {}]_vars
    /\ [](\A i \in 1..MaxSubmits : submits[i].pc = "aborted" =>
            /\ submits[i].adds = 0
            /\ submits[i].request = NoRequest
            /\ submits[i].getAlls = <<>>
            /\ submits[i].closes = 0)

C8_Witness ==
    \E i \in 1..MaxSubmits :
        /\ submits[i].pc = "aborted"
        /\ formData.cover = "notes.pdf"
        /\ Len(formData.title) >= 3 /\ Len(formData.author) >= 3
        /\ DOMAIN errors = {"cover"}

\* C9: validate reports no error if and only if the draft is fully valid,
\* the texts being measured after trimming.
C9_Original ==
    checked # "none" => ((checked = "true") <=> FullyValid(formData))

\* C18: validate reports exactly one cover error for a cover that needs one:
\* a present cover of a disallowed type gets the type error, an absent cover
\* gets the absent error, a present cover never gets the absent error, and a
\* present cover of an allowed type gets none.
C18_CoverError ==
    checked # "none" =>
        /\ formData.cover = Null =>
              ("cover" \in DOMAIN errors /\ errors["cover"] = "Please upload an image.")
        /\ (formData.cover # Null
               /\ FileType(formData.cover) \notin {"image/jpeg", "image/png", "image/gif"}) =>
              (/\ "cover" \in DOMAIN errors
               /\ errors["cover"] = "Only JPG, PNG, or GIF images are allowed.")
        /\ (formData.cover # Null
               /\ FileType(formData.cover) \in {"image/jpeg", "image/png", "image/gif"}) =>
              "cover" \notin DOMAIN errors

\* validate has run on a draft with a PDF as cover and on nothing else wrong.
C18_Witness ==
    /\ checked = "false"
    /\ formData.cover = "notes.pdf"
    /\ DOMAIN errors = {"cover"}
    /\ errors["cover"] = CoverTypeError

\* C10: the stored quantity is always an integer of 1 or more.
C10_Original == ~formData.quantity.nan /\ formData.quantity.val >= 1

\* C12: after a change of a field the visible errors are the result of
\* validating the draft as it is after the change, recomputed wholesale.
\* (A step that changes the draft and neither a submission nor a reader is a
\* field change.)
C12_Original ==
    [][(submits' = submits /\ readers' = readers /\ formData' # formData) =>
          errors' = validate(formData')]_vars

\* C13: in every observable state the cover and the preview agree: the cover
\* is present only with a non-empty preview derived from that same file, and
\* without a cover there is no preview; so a submission passes the cover
\* check only when a non-empty preview exists, a failed read included.
C13_Original ==
    /\ formData.cover = Null => preview = ""
    /\ formData.cover # Null =>
          (preview \notin {"", Null, Undefined} /\ preview = DataURL(formData.cover))

\* C14: across any interleaving of submissions on one form, getAll is never
\* issued while an add is still in flight.
C14_Original ==
    [][\A i \in 1..MaxSubmits :
          Len(submits'[i].getAlls) > Len(submits[i].getAlls) =>
              \A j \in 1..MaxSubmits : j # i => submits[j].pc # "adding"]_vars

\* C16: a submission does not catch the failures of add or getAll: when add
\* rejects, the submission rejects, no getAll is issued, the draft and the
\* preview are not reset and close is not signalled; when getAll rejects,
\* the submission rejects too.
C16_Original ==
    /\ [](\A i \in 1..MaxSubmits : submits[i].pc = "threw" =>
            (submits[i].getAlls = <<>> /\ submits[i].closes = 0))
    /\ [][\A i \in 1..MaxSubmits :
            (submits[i].pc = "adding" /\ submits'[i].pc = "threw") =>
                (formData' = formData /\ preview' = preview)]_vars
    /\ [](\A i \in 1..MaxSubmits : submits[i].refresh = "rejected" =>
            submits[i].pc = "threw")

\* C17: double submission is guarded: at most one login, at most one
\* register and at most one submission's add are in flight at any time.
C17_Original ==
    /\ \A kind \in {"login", "register"} :
          Cardinality({i \in Slots : calls[i].kind = kind /\ calls[i].pc = "pending"}) <= 1
    /\ Cardinality({i \in 1..MaxSubmits : submits[i].pc = "adding"}) <= 1

\* The reading of a text as a number, by place value: an integer is an
\* optional sign and digits; a decimal has one more digit after a point.
IsDigits(s) == s # <<>> /\ \A k \in 1..Len(s) : s[k] \in Digits

Unsigned(s) == IF s # <<>> /\ s[1] \in {"-", "+"} THEN SubSeq(s, 2, Len(s)) ELSE s

Sign(s) == IF s # <<>> /\ s[1] = "-" THEN 0 - 1 ELSE 1

RECURSIVE PlaceValue(_)
PlaceValue(ds) ==
    IF ds = <<>> THEN 0
    ELSE 10 * PlaceValue(SubSeq(ds, 1, Len(ds) - 1)) + DigitValue(ds[Len(ds)])

IsIntegerText(s) == IsDigits(Unsigned(s))

IntegerOf(s) == Sign(s) * PlaceValue(Unsigned(s))

IsDecimalText(s) ==
    LET u == Unsigned(s)
    IN  /\ Len(u) >= 3
        /\ u[Len(u) - 1] = "."
        /\ IsDigits(SubSeq(u, 1, Len(u) - 2))
        /\ u[Len(u)] \in Digits

\* Ten times the number a numeric text denotes.
TenthsOf(s) ==
    IF IsIntegerText(s) THEN 10 * IntegerOf(s)
    ELSE LET u == Unsigned(s)
         IN  Sign(s) * (10 * PlaceValue(SubSeq(u, 1, Len(u) - 2))
                          + DigitValue(u[Len(u)]))

Largest(a, b) == IF a >= b THEN a ELSE b

\* What C19 says of every delivery of a quantity and of a submission of a
\* quantity that is no number.
IdempotentAndRejected ==
    /\ [][(event # Null /\ event' = Null) =>
            /\ event = Decimal(formData.quantity) =>
                  formData'.quantity = formData.quantity
            /\ event = <<"a", "b", "c">> => formData'.quantity.nan]_vars
    /\ [][\A i \in 1..MaxSubmits : (Starts(i) /\ formData.quantity.nan) =>
            /\ submits'[i].pc = "aborted"
            /\ submits'[i].adds = 0
            /\ "quantity" \in DOMAIN errors']_vars

\* C19 (as stated): for every numeric input n a change of the quantity
\* stores max(1, n), and applying the coercion again to the stored value
\* leaves it unchanged; the input "abc" stores a value on which validate
\* reports a quantity error, so that a submission issues no network call.
C19_Original ==
    /\ [][(event # Null /\ event' = Null
             /\ (IsIntegerText(event) \/ IsDecimalText(event))) =>
            /\ ~formData'.quantity.nan
            /\ 10 * formData'.quantity.val = Largest(10, TenthsOf(event))]_vars
    /\ IdempotentAndRejected

\* C19 (amended): for every integer input n a change of the quantity stores
\* max(1, n); a numeric input that is no integer is cut at its first
\* character that is no digit before the floor is applied (2.5 stores 2, 1e3
\* stores 1); applying the coercion again to the stored value leaves it
\* unchanged; the input "abc" stores a value on which validate reports a
\* quantity error, so that a submission issues no network call.
C19_Coercion ==
    /\ [][(event # Null /\ event' = Null) =>
            /\ IsIntegerText(event) =>
                  formData'.quantity =
                      [nan |-> FALSE, val |-> Largest(1, IntegerOf(event))]
            /\ event = <<"2", ".", "5">> =>
                  formData'.quantity = [nan |-> FALSE, val |-> 2]
            /\ event = <<"1", "e", "3">> =>
                  formData'.quantity = [nan |-> FALSE, val |-> 1]]_vars
    /\ IdempotentAndRejected

\* "abc" was delivered, the stored NaN was shown and delivered again, and a
\* submission of the otherwise valid draft was turned down for its quantity.
C19_Witness ==
    \E i \in 1..MaxSubmits :
        /\ submits[i].pc = "aborted" /\ submits[i].adds = 0
        /\ formData.quantity.nan
        /\ DOMAIN errors = {"quantity"}
        /\ event = Null

\* C20: when all reads have ended, the cover and the preview are those of
\* the file chosen last, whatever the order the reads ended in; and a read
\* that ends after a submission has reset the draft, for a file chosen before
\* the reset, leaves the reset draft as it is.  (A failed read's null preview
\* is let through here.)
C20_Original ==
    /\ []((/\ readers = {}
           /\ history.selected # Null
           /\ history.epoch[history.selected] = DoneCount) =>
            (/\ formData.cover = history.selected
             /\ preview \in {DataURL(history.selected), Null}))
    /\ [][\A f \in ChosenFiles :
            (f \in readers /\ f \notin readers' /\ history.epoch[f] < DoneCount) =>
                (formData'.cover = formData.cover /\ preview' = preview)]_vars

=============================================================================
